---------------------------- MODULE Spec2Model ----------------------------
(***************************************************************************)
(* A model of the image-URL cache pipeline: the validator                  *)
(* (validate_images.py), the dedup maintenance command (dev_tools.py) and  *)
(* the scraper's persistence step (pinterest_scraper.py).                  *)
(*                                                                         *)
(* Under Spec, one behaviour is one invocation of one of the three         *)
(* programs on a file system holding the two cache files and their         *)
(* backups.  File renames follow POSIX semantics (an existing target is    *)
(* replaced).  Under UrlSpec one behaviour gives one URL to the scraper's  *)
(* URL functions, under DedupeSpec it gives one input to a dedup loop.     *)
(* FairSpec is the validator under fair scheduling.                        *)
(***************************************************************************)
EXTENDS Integers, Sequences, FiniteSets, TLC

(***************************************************************************)
(* Bounds of the model.                                                    *)
(***************************************************************************)
\* longest cache enumerated with every combination of the core entry kinds
MaxSmall == 3
\* longest cache enumerated with every combination of all record kinds
MaxMixed == 2
\* longest cache enumerated at all (long caches cycle through LongCycle)
MaxEntries == 25
\* most pins one page extraction hands to scrape_search
MaxPins == 2
\* most path segments between the host and the file name of a URL
MaxSegments == 2
\* longest input of the dedup loops run on their own
MaxDedupe == 3
\* largest max_pins the dedup loop of scrape_search is run with
MaxCap == 3

(***************************************************************************)
(* Python values.  A JSON value stored under a key of an entry is a string *)
(* (a URL, or ""), None (the key is missing: dict.get returns None) or a   *)
(* non-string truthy value (a number).                                     *)
(***************************************************************************)
NoneV == "<None>"
NumV == "<5>"

Truthy(v) == v \notin {NoneV, ""}
IsStr(v) == v \notin {NoneV, NumV}

\* Python's `a or b`
PyOr(a, b) == IF Truthy(a) THEN a ELSE b

(***************************************************************************)
(* Text as sequences of characters: str.lower() and the `in` operator.     *)
(***************************************************************************)
UpperAlpha ==
    << "A", "B", "C", "D", "E", "F", "G", "H", "I", "J", "K", "L", "M",
       "N", "O", "P", "Q", "R", "S", "T", "U", "V", "W", "X", "Y", "Z" >>
LowerAlpha ==
    << "a", "b", "c", "d", "e", "f", "g", "h", "i", "j", "k", "l", "m",
       "n", "o", "p", "q", "r", "s", "t", "u", "v", "w", "x", "y", "z" >>

LowerChar(c) ==
    IF \E j \in 1..Len(UpperAlpha) : UpperAlpha[j] = c
    THEN LowerAlpha[CHOOSE j \in 1..Len(UpperAlpha) : UpperAlpha[j] = c]
    ELSE c

Lower(s) == [j \in 1..Len(s) |-> LowerChar(s[j])]

Contains(hay, needle) ==
    \E s \in 0..(Len(hay) - Len(needle)) :
        SubSeq(hay, s + 1, s + Len(needle)) = needle

IMAGE == << "i", "m", "a", "g", "e" >>

(***************************************************************************)
(* URLs are strings: Len, SubSeq and \o work on their characters.          *)
(***************************************************************************)
\* str.lower() of a string
RECURSIVE LowerStr(_)
LowerStr(s) ==
    IF Len(s) = 0 THEN s
    ELSE LowerChar(SubSeq(s, 1, 1)) \o LowerStr(SubSeq(s, 2, Len(s)))

\* str.endswith(suffix)
EndsWith(s, suffix) ==
    /\ Len(s) >= Len(suffix)
    /\ SubSeq(s, Len(s) - Len(suffix) + 1, Len(s)) = suffix

\* the position of the first character of s that is one of chars, or
\* Len(s) + 1 when there is none
FindAny(s, chars) ==
    IF \E j \in 1..Len(s) : SubSeq(s, j, j) \in chars
    THEN CHOOSE j \in 1..Len(s) :
            /\ SubSeq(s, j, j) \in chars
            /\ \A k \in 1..(j - 1) : SubSeq(s, k, k) \notin chars
    ELSE Len(s) + 1

\* re.sub(pattern, replacement, s) for a pattern without metacharacters: the
\* occurrences are found from left to right and do not overlap
RECURSIVE ReSub(_, _, _)
ReSub(pattern, replacement, s) ==
    IF Len(s) < Len(pattern) THEN s
    ELSE IF SubSeq(s, 1, Len(pattern)) = pattern
    THEN replacement
            \o ReSub(pattern, replacement, SubSeq(s, Len(pattern) + 1, Len(s)))
    ELSE SubSeq(s, 1, 1) \o ReSub(pattern, replacement, SubSeq(s, 2, Len(s)))

(***************************************************************************)
(* pinterest_scraper.py: convert_to_original_url                           *)
(***************************************************************************)
\* the size patterns, without the last one
patterns_without_736x ==
    << << "/236x/", "/originals/" >>,
       << "/474x/", "/originals/" >>,
       << "/564x/", "/originals/" >>,
       << "/originals/", "/originals/" >> >>

patterns ==
    << << "/236x/", "/originals/" >>,
       << "/474x/", "/originals/" >>,
       << "/564x/", "/originals/" >>,
       << "/736x/", "/originals/" >>,
       << "/originals/", "/originals/" >> >>

\* for pattern, replacement in patterns: url = re.sub(...), from pattern j on
RECURSIVE ApplyPatterns(_, _)
ApplyPatterns(url, j) ==
    IF j > Len(patterns) THEN url
    ELSE ApplyPatterns(ReSub(patterns[j][1], patterns[j][2], url), j + 1)

convert_to_original_url(url) ==
    IF ~Truthy(url) \/ ~Contains(url, "pinimg.com") THEN url
    ELSE ApplyPatterns(url, 1)

(***************************************************************************)
(* pinterest_scraper.py: is_valid_image_url                                *)
(***************************************************************************)
scheme_chars ==
    "abcdefghijklmnopqrstuvwxyzABCDEFGHIJKLMNOPQRSTUVWXYZ0123456789+-."

\* urlparse(url): the scheme up to the first ':', the netloc after '//' up
\* to the next '/', '?' or '#', the path up to the '#' and the '?' (no URL
\* of the model has a ';' in the last segment of its path)
urlparse(url) ==
    LET colon == FindAny(url, {":"})
        has_scheme ==
            /\ 1 < colon
            /\ colon <= Len(url)
            /\ Contains(SubSeq(scheme_chars, 1, 52), SubSeq(url, 1, 1))
            /\ \A j \in 1..(colon - 1) : Contains(scheme_chars, SubSeq(url, j, j))
        rest == IF has_scheme THEN SubSeq(url, colon + 1, Len(url)) ELSE url
        has_netloc == Len(rest) >= 2 /\ SubSeq(rest, 1, 2) = "//"
        body == IF has_netloc THEN SubSeq(rest, 3, Len(rest)) ELSE rest
        delim == IF has_netloc THEN FindAny(body, {"/", "?", "#"}) ELSE 1
        tail == SubSeq(body, delim, Len(body))
        no_fragment == SubSeq(tail, 1, FindAny(tail, {"#"}) - 1)
    IN  [scheme |-> IF has_scheme THEN LowerStr(SubSeq(url, 1, colon - 1)) ELSE "",
         netloc |-> SubSeq(body, 1, delim - 1),
         path |-> SubSeq(no_fragment, 1, FindAny(no_fragment, {"?"}) - 1)]

\* the deny-list without its first pattern
invalid_patterns_without_blob ==
    << "data:", "video-thumbnails", "storypin", ".gif" >>

invalid_patterns ==
    << "blob:", "data:", "video-thumbnails", "storypin", ".gif" >>

valid_extensions == << ".jpg", ".jpeg", ".png", ".webp" >>

is_valid_image_url(url) ==
    IF ~Truthy(url) \/ ~IsStr(url) THEN FALSE
    ELSE LET url_lower == LowerStr(url) IN
         IF \E j \in 1..Len(invalid_patterns) :
                Contains(url_lower, invalid_patterns[j])
         THEN FALSE
         ELSE IF ~Contains(url, "pinimg.com") THEN FALSE
         ELSE LET url_path == LowerStr(urlparse(url).path) IN
              \E j \in 1..Len(valid_extensions) :
                 EndsWith(url_path, valid_extensions[j])

(***************************************************************************)
(* dev_tools.py: analyze_cache's type analysis of a URL                    *)
(***************************************************************************)
sizes == << "/236x/", "/474x/", "/564x/", "/736x/" >>

url_type(url) ==
    IF Contains(url, "/originals/") THEN "original"
    ELSE IF \E j \in 1..Len(sizes) : Contains(url, sizes[j]) THEN "thumbnail"
    ELSE "unknown"

(***************************************************************************)
(* The remote host.  What a URL answers to a header-only request and to a  *)
(* full fetch is a property of the URL: a transport failure (err), or a    *)
(* response with a status and a Content-Type header ("" when missing).     *)
(***************************************************************************)
CT_JPEG == << "i", "m", "a", "g", "e", "/", "j", "p", "e", "g" >>
CT_PNG_MIXED == << "I", "m", "a", "g", "e", "/", "P", "N", "G" >>
CT_HTML == << "t", "e", "x", "t", "/", "h", "t", "m", "l" >>
CT_NONE == << >>

Resp(st, ct) == [err |-> FALSE, status |-> st, ctype |-> ct]
Fail == [err |-> TRUE, status |-> 0, ctype |-> CT_NONE]

PageUrl == "https://www.pinterest.com/pin/1/"

Urls == {"ok.jpg", "gone.jpg", "nohead.png", "timeout.jpg", "reset.jpg", PageUrl}

Server(u) ==
    CASE u = "ok.jpg"      -> [head |-> Resp(200, CT_JPEG), get |-> Resp(200, CT_JPEG)]
      [] u = "gone.jpg"    -> [head |-> Resp(404, CT_JPEG), get |-> Resp(400, CT_JPEG)]
      [] u = "nohead.png"  -> [head |-> Resp(405, CT_NONE), get |-> Resp(200, CT_PNG_MIXED)]
      [] u = "timeout.jpg" -> [head |-> Fail, get |-> Fail]
      [] u = "reset.jpg"   -> [head |-> Resp(200, CT_NONE), get |-> Fail]
      [] OTHER             -> [head |-> Resp(200, CT_HTML), get |-> Resp(200, CT_HTML)]

(***************************************************************************)
(* Cache records.  A record of a cache array is a dict (an entry in the    *)
(* legacy shape {media, title, url} or in the current shape {url, ...}) or *)
(* something that is no dict.                                              *)
(***************************************************************************)
Legacy(m) == [dict |-> TRUE, media |-> m, url |-> PageUrl]
Current(u) == [dict |-> TRUE, media |-> NoneV, url |-> u]
NoUrl == [dict |-> TRUE, media |-> "", url |-> ""]
NumUrl == [dict |-> TRUE, media |-> NumV, url |-> ""]
NonDict == [dict |-> FALSE, media |-> NoneV, url |-> NoneV]

\* entry.get('media') or entry.get('url')
EntryUrl(e) == PyOr(e.media, e.url)


(***************************************************************************)
(* Files.  A path is <<directory, stem, suffix>>.  A file is absent, or    *)
(* holds text that is no JSON, or a JSON document: a number, an object     *)
(* (items: its keys, which are no dicts), or an array of records.          *)
(***************************************************************************)
OUTPUT_FILE == << "", "pinterest_cache", ".json" >>
EXTENSION_OUTPUT == << "extension/data/", "pinterest_cache", ".json" >>

FILES_TO_VALIDATE == << OUTPUT_FILE, EXTENSION_OUTPUT >>

CacheFiles == {OUTPUT_FILE, EXTENSION_OUTPUT}

\* cache_file.replace('.json', '_backup.json')
ValidatorBackup(p) ==
    [j \in 1..Len(p) |-> IF p[j] = ".json" THEN "_backup.json" ELSE p[j]]

\* cache_path.with_suffix('.backup.json')
DedupBackup(p) == << p[1], p[2], ".backup.json" >>

Paths ==
    CacheFiles \cup {ValidatorBackup(p) : p \in CacheFiles}
               \cup {DedupBackup(p) : p \in CacheFiles}

Absent == [tag |-> "absent", items |-> << >>]
NotJson == [tag |-> "notjson", items |-> << >>]
JNumber == [tag |-> "number", items |-> << >>]
JObject(keys) == [tag |-> "object", items |-> keys]
JArray(items) == [tag |-> "array", items |-> items]

Exists(f, p) == f[p].tag # "absent"

\* Path.rename(target): the source disappears, the target is replaced
Rename(f, src, dst) == [f EXCEPT ![dst] = f[src], ![src] = Absent]

\* open(path, 'w') followed by json.dump(entries, ...)
WriteJson(f, p, entries) == [f EXCEPT ![p] = JArray(entries)]

(***************************************************************************)
(* The inputs: the caches a run may find on disk.                          *)
(***************************************************************************)
SeqsUpTo(S, n) == UNION {[1..k -> S] : k \in 0..n}

\* entries with a URL: live, dead, failing, live by the full fetch
CoreItems ==
    {Legacy("ok.jpg"), Legacy("gone.jpg"), Legacy("timeout.jpg"),
     Current("nohead.png")}

SmallItems ==
    CoreItems \cup {Legacy("reset.jpg"), Legacy(""), NoUrl, NumUrl, NonDict}

LongCycle == << Legacy("ok.jpg"), Legacy("gone.jpg"), Legacy("timeout.jpg") >>

\* n records that all carry a URL
LongCache(n) == [j \in 1..n |-> LongCycle[((j - 1) % Len(LongCycle)) + 1]]

\* n records of which every other one carries no URL
SparseCache(n) == [j \in 1..n |-> IF j % 2 = 1 THEN NoUrl ELSE Legacy("ok.jpg")]

NonArrays == {NotJson, JNumber, JObject(<< >>), JObject(<< NonDict >>)}

\* the arrays of up to n core entries and those of up to m records of any kind
SmallContents(n, m) ==
    NonArrays \cup {JArray(s) : s \in SeqsUpTo(CoreItems, n) \cup SeqsUpTo(SmallItems, m)}

\* lengths around one full batch and around two full batches plus a rest
LongLens == 9..11 \cup (MaxEntries - 5)..MaxEntries

LongContents ==
    {JArray(LongCache(n)) : n \in LongLens}
        \cup {JArray(SparseCache(n)) : n \in (MaxEntries - 2)..MaxEntries}

StaleBackup == JArray(<< Legacy("gone.jpg") >>)

\* a file system with the two cache files holding c1 and c2
Disk(c1, c2, stale) ==
    [p \in Paths |->
        IF p = OUTPUT_FILE THEN c1
        ELSE IF p = EXTENSION_OUTPUT THEN c2
        ELSE IF stale THEN StaleBackup ELSE Absent]

ValidateDisks ==
    {Disk(c, Absent, FALSE) : c \in SmallContents(MaxSmall, MaxMixed) \cup LongContents}
        \cup {Disk(c1, c2, st) :
                c1 \in {Absent, JArray(<< Legacy("ok.jpg") >>),
                        JArray(<< Legacy("gone.jpg") >>)},
                c2 \in SmallContents(MaxSmall - 1, MaxMixed - 1) \cup {Absent},
                st \in BOOLEAN}

DedupDisks ==
    {Disk(c, Absent, st) : c \in SmallContents(MaxSmall, MaxMixed) \cup {Absent},
                           st \in BOOLEAN}
        \cup {Disk(Absent, c, FALSE) : c \in SmallContents(MaxSmall - 1, MaxMixed - 1)}

ScrapeDisks ==
    {Disk(c1, c2, st) : c1 \in {Absent, JArray(<< Legacy("ok.jpg") >>)},
                        c2 \in {Absent, NotJson},
                        st \in BOOLEAN}

(***************************************************************************)
(* The inputs of the URL functions and of the dedup loops.                 *)
(***************************************************************************)
\* the strings of a sequence, concatenated
RECURSIVE Join(_)
Join(parts) == IF parts = << >> THEN "" ELSE Head(parts) \o Join(Tail(parts))

UrlHeads ==
    {"https://i.pinimg.com", "https://example.com",
     "https://example.com/pinimg.com", "https://pinimg.com.example.org",
     "blob:https://i.pinimg.com"}

UrlSegments == {"/236x", "/474x", "/736x", "/originals", "/ab"}

UrlTails ==
    {"/photo.jpg", "/photo.gif", "/photo.PNG", "/photo", "/photo.jpg?w=1",
     "/photo?f=a.jpg"}

ExtraUrls ==
    {"https://i.pinimg.com/originals/ab/cd/photo.jpg",
     "https://i.pinimg.com/originals/ab/cd/photo.gif",
     "https://i.pinimg.com/564x/ab/cd/photo.jpeg",
     "https://i.pinimg.com/736x/564x/236x/474x/photo.webp",
     "https://i.pinimg.com/video-thumbnails/ab/photo.jpg",
     "https://i.pinimg.com/originals/ab/storypin.jpg",
     "https://I.PINIMG.COM/originals/ab/photo.jpg",
     "BLOB:https://i.pinimg.com/originals/ab/photo.jpg",
     "data:image/jpeg;i.pinimg.com/photo.jpg",
     "https://i.pinimg.com/originals/ab/photo.jpg#top",
     "https://www.pinterest.com/pin/1/",
     ""}

\* the values is_valid_image_url and convert_to_original_url are given
TestUrls ==
    {h \o Join(segs) \o t :
        h \in UrlHeads, segs \in SeqsUpTo(UrlSegments, MaxSegments), t \in UrlTails}
        \cup ExtraUrls \cup {NoneV, NumV}

\* the src attributes of the img elements of a page ("": no src, no srcset)
ImgSrcs ==
    {"https://i.pinimg.com/236x/ab/cd/photo.jpg",
     "https://i.pinimg.com/originals/ab/cd/photo.jpg",
     "https://i.pinimg.com/736x/ab/cd/other.png",
     "https://i.pinimg.com/originals/ab/cd/photo.gif",
     ""}

\* the records of the caches the dedup loop of remove_duplicates is run on
DedupeItems ==
    {Legacy("https://i.pinimg.com/236x/ab/cd/photo.jpg"),
     Legacy("https://i.pinimg.com/originals/ab/cd/photo.jpg"),
     Current("https://i.pinimg.com/originals/ab/cd/photo.jpg"),
     Legacy("https://i.pinimg.com/originals/ab/cd/other.png"),
     Legacy(""), NoUrl}

(***************************************************************************)
(* State.                                                                  *)
(***************************************************************************)
VARIABLES
    cmd,            \* the program that runs: "validate", "dedup" or "scrape"
    target,         \* the dedup command's filepath argument
    pc,             \* the program's position
    exc,            \* the exception that ended the program, or "none"
    fs,             \* the file system: path -> contents
    fs0,            \* the file system the program started on
    written,        \* the paths opened for writing so far
    fileIdx,        \* main's position in FILES_TO_VALIDATE (validator)
    session,        \* ImageValidator.session: "none", "open" or "closed"
    acquired,       \* sessions created by the current validate_cache call
    cache_data,     \* the loaded records
    tasks,          \* validate_cache's tasks: positions in cache_data
    i,              \* validate_cache's batch offset
    phase,          \* per task: "new", "head", "get" or "done"
    result,         \* per task: is_valid, once done
    reqs,           \* per task: the requests issued, in order
    valid_entries,  \* validate_cache's valid_entries
    batches,        \* the sizes of the batches gathered so far
    sleeps,         \* the inter-batch pauses slept so far
    unique_data,    \* remove_duplicates' unique_data
    results,        \* PinterestScraper.results
    kw,             \* scraper main's position in KEYWORDS
    step,           \* the position of a function run on its own, or "none"
    given_url,      \* the url a URL function is given
    converted,      \* convert_to_original_url(given_url)
    renormalized,   \* convert_to_original_url(converted)
    verdict,        \* is_valid_image_url(given_url)
    tier,           \* the type analyze_cache gives converted
    given_srcs,     \* the src attributes extract_pins_from_page goes through
    given_pins,     \* the pins extract_pins_from_page returns
    given_cap,      \* the max_pins scrape_search is given
    returned_pins   \* the unique_pins scrape_search returns

vars ==
    << cmd, target, pc, exc, fs, fs0, written, fileIdx, session, acquired,
       cache_data, tasks, i, phase, result, reqs, valid_entries, batches,
       sleeps, unique_data, results, kw, step, given_url, converted,
       renormalized, verdict, tier, given_srcs, given_pins, given_cap,
       returned_pins >>

urlVars == << given_url, converted, renormalized, verdict, tier >>
pinVars == << given_srcs, given_pins, given_cap, returned_pins >>
fixedVars == << cmd, target, fs0, step, urlVars, pinVars >>
diskVars == << fs, written >>
sessVars == << session, acquired >>
taskVars == << tasks, phase, result, reqs >>
loopVars == << i, batches, sleeps >>
otherVars == << unique_data, results, kw >>

\* no URL function has been given anything
NoUrlGiven ==
    /\ given_url = ""
    /\ converted = ""
    /\ renormalized = ""
    /\ verdict = FALSE
    /\ tier = "none"

\* no page has been extracted outside scrape_search
NoPinsGiven ==
    /\ given_srcs = << >>
    /\ given_pins = << >>
    /\ given_cap = 0
    /\ returned_pins = << >>

\* nothing has run yet
Fresh ==
    /\ exc = "none"
    /\ written = {}
    /\ fileIdx = 1
    /\ session = "none"
    /\ acquired = 0
    /\ tasks = << >>
    /\ i = 0
    /\ phase = << >>
    /\ result = << >>
    /\ reqs = << >>
    /\ valid_entries = << >>
    /\ batches = << >>
    /\ sleeps = 0
    /\ unique_data = << >>
    /\ results = << >>
    /\ kw = 1

Init ==
    /\ cmd \in {"validate", "dedup", "scrape"}
    /\ target \in (IF cmd = "dedup" THEN CacheFiles ELSE {OUTPUT_FILE})
    /\ fs \in (CASE cmd = "validate" -> ValidateDisks
                 [] cmd = "dedup" -> DedupDisks
                 [] OTHER -> ScrapeDisks)
    /\ fs0 = fs
    /\ pc = (CASE cmd = "validate" -> "main_loop"
               [] cmd = "dedup" -> "rd_start"
               [] OTHER -> "sc_scrape")
    /\ cache_data = << >>
    /\ Fresh
    /\ step = "none"
    /\ NoUrlGiven
    /\ NoPinsGiven

\* an exception nobody catches ends the program
Raise(e) == pc' = "crashed" /\ exc' = e

(***************************************************************************)
(* validate_images.py: main                                                *)
(***************************************************************************)
cache_file == FILES_TO_VALIDATE[fileIdx]

\* the head of main's loop: the next file is skipped when it is not there,
\* validated otherwise; after the last file main returns
MainNextFile ==
    /\ pc = "main_loop"
    /\ IF fileIdx > Len(FILES_TO_VALIDATE)
       THEN pc' = "done" /\ UNCHANGED fileIdx
       ELSE IF ~Exists(fs, cache_file)
       THEN pc' = "main_loop" /\ fileIdx' = fileIdx + 1
       ELSE pc' = "vc_load" /\ UNCHANGED fileIdx
    /\ UNCHANGED << fixedVars, exc, diskVars, sessVars, cache_data, taskVars,
                    loopVars, valid_entries, otherVars >>

(***************************************************************************)
(* ImageValidator.validate_cache                                           *)
(***************************************************************************)
\* the exists check, json.load and len(cache_data)
LoadCache ==
    /\ pc = "vc_load"
    /\ acquired' = 0
    /\ tasks' = << >> /\ phase' = << >> /\ result' = << >> /\ reqs' = << >>
    /\ i' = 0 /\ batches' = << >> /\ sleeps' = 0
    /\ valid_entries' = << >>
    /\ IF ~Exists(fs, cache_file)
       THEN pc' = "main_check" /\ UNCHANGED << exc, cache_data >>
       ELSE IF fs[cache_file].tag = "notjson"
       THEN Raise("JSONDecodeError") /\ UNCHANGED cache_data
       ELSE IF fs[cache_file].tag = "number"
       THEN Raise("TypeError") /\ cache_data' = << >>
       ELSE /\ pc' = "vc_session"
            /\ cache_data' = fs[cache_file].items
            /\ UNCHANGED exc
    /\ UNCHANGED << fixedVars, diskVars, fileIdx, session, otherVars >>

\* await self.init_session()
InitSession ==
    /\ pc = "vc_session"
    /\ session' = "open"
    /\ acquired' = acquired + 1
    /\ pc' = "vc_tasks"
    /\ UNCHANGED << fixedVars, exc, diskVars, fileIdx, cache_data, taskVars,
                    loopVars, valid_entries, otherVars >>

\* the positions of the records that get a task: those with a truthy URL
TaskList(data) ==
    SelectSeq([j \in 1..Len(data) |-> j], LAMBDA j : Truthy(EntryUrl(data[j])))

\* the loop that creates the tasks: entry.get raises on a record that is no dict
CreateTasks ==
    /\ pc = "vc_tasks"
    /\ IF \E j \in 1..Len(cache_data) : ~cache_data[j].dict
       THEN Raise("AttributeError") /\ UNCHANGED taskVars
       ELSE /\ tasks' = TaskList(cache_data)
            /\ phase' = [k \in 1..Len(tasks') |-> "new"]
            /\ result' = [k \in 1..Len(tasks') |-> FALSE]
            /\ reqs' = [k \in 1..Len(tasks') |-> << >>]
            /\ pc' = "vc_batch"
            /\ UNCHANGED exc
    /\ UNCHANGED << fixedVars, diskVars, fileIdx, sessVars, cache_data,
                    loopVars, valid_entries, otherVars >>

batch_size == 10

\* a slice that is one task too long
BatchHiOffByOne(start) ==
    IF start + batch_size + 1 < Len(tasks)
    THEN start + batch_size + 1 ELSE Len(tasks)

\* tasks[i:i + batch_size], as the first and the last task of the slice
BatchLo(start) == start + 1
BatchHi(start) ==
    IF start + batch_size < Len(tasks) THEN start + batch_size ELSE Len(tasks)

Batch(start) == BatchLo(start)..BatchHi(start)

TaskUrl(k) == EntryUrl(cache_data[tasks[k]])

\* check_url's guard: no request for a URL that is empty or no string
Checkable(u) == Truthy(u) /\ IsStr(u)

\* range(0, len(tasks), batch_size) and asyncio.gather(*batch): every task of
\* the batch starts and runs up to its first request
StartBatch ==
    /\ pc = "vc_batch"
    /\ IF i < Len(tasks)
       THEN /\ phase' = [k \in 1..Len(tasks) |->
                           IF k \in Batch(i)
                           THEN (IF Checkable(TaskUrl(k)) THEN "head" ELSE "done")
                           ELSE phase[k]]
            /\ reqs' = [k \in 1..Len(tasks) |->
                           IF k \in Batch(i) /\ Checkable(TaskUrl(k))
                           THEN << "HEAD" >> ELSE reqs[k]]
            /\ batches' = Append(batches, Cardinality(Batch(i)))
            /\ pc' = "vc_gather"
       ELSE /\ pc' = "vc_close"
            /\ UNCHANGED << phase, reqs, batches >>
    /\ UNCHANGED << fixedVars, exc, diskVars, fileIdx, sessVars, cache_data,
                    tasks, result, i, sleeps, valid_entries, otherVars >>

(***************************************************************************)
(* ImageValidator.check_url                                                *)
(***************************************************************************)
\* the Content-Type compared without lower-casing it
ResponseIsImageCaseSensitive(r) == r.status < 400 /\ Contains(r.ctype, IMAGE)

\* status < 400 and 'image' in the lower-cased Content-Type
ResponseIsImage(r) == r.status < 400 /\ Contains(Lower(r.ctype), IMAGE)

\* a fallback on an error status only
NeedsFallbackOnErrorStatusOnly(r) == r.status >= 400

\* the header-only response does not settle the URL: go on to the full fetch
NeedsFallback(r) == ~ResponseIsImage(r)

\* no except clause: the transport failure leaves check_url
CheckUrlExceptMissing(k) ==
    /\ Raise("ClientError")
    /\ UNCHANGED << phase, result, reqs >>

\* except Exception: the failure is printed and the probe returns False
CheckUrlExcept(k) ==
    /\ phase' = [phase EXCEPT ![k] = "done"]
    /\ result' = [result EXCEPT ![k] = FALSE]
    /\ UNCHANGED << pc, exc, reqs >>

\* the header-only request of task k ends
HeadComplete(k) ==
    /\ pc = "vc_gather"
    /\ phase[k] = "head"
    /\ LET r == Server(TaskUrl(k)).head IN
         IF r.err
         THEN CheckUrlExcept(k)
         ELSE IF NeedsFallback(r)
         THEN /\ phase' = [phase EXCEPT ![k] = "get"]
              /\ reqs' = [reqs EXCEPT ![k] = Append(@, "GET")]
              /\ UNCHANGED << pc, exc, result >>
         ELSE /\ phase' = [phase EXCEPT ![k] = "done"]
              /\ result' = [result EXCEPT ![k] = TRUE]
              /\ UNCHANGED << pc, exc, reqs >>
    /\ UNCHANGED << fixedVars, diskVars, fileIdx, sessVars, cache_data, tasks,
                    loopVars, valid_entries, otherVars >>

\* the full fetch of task k ends
GetComplete(k) ==
    /\ pc = "vc_gather"
    /\ phase[k] = "get"
    /\ LET r == Server(TaskUrl(k)).get IN
         IF r.err
         THEN CheckUrlExcept(k)
         ELSE /\ phase' = [phase EXCEPT ![k] = "done"]
              /\ result' = [result EXCEPT ![k] = ResponseIsImage(r)]
              /\ UNCHANGED << pc, exc, reqs >>
    /\ UNCHANGED << fixedVars, diskVars, fileIdx, sessVars, cache_data, tasks,
                    loopVars, valid_entries, otherVars >>

(***************************************************************************)
(* validate_cache, continued: the barrier, the results, the pause          *)
(***************************************************************************)
\* a wait that returns with the first task that is done
GatherFirstDone(start) == \E k \in Batch(start) : phase[k] = "done"

\* a gather that waits for every task of the list, not for its batch alone
GatherWholeList(start) == \A k \in 1..Len(tasks) : phase[k] = "done"

\* await asyncio.gather(*batch) returns once every task of the batch is done
GatherDone(start) == \A k \in Batch(start) : phase[k] = "done"

\* results in the reverse of the order of the batch's tasks
GatherResultsReversed(start) ==
    [j \in 1..(BatchHi(start) - BatchLo(start) + 1) |->
        << cache_data[tasks[BatchHi(start) - j + 1]],
           result[BatchHi(start) - j + 1] >>]

\* gather's results: (entry, is_valid) in the order of the batch's tasks
GatherResults(start) ==
    [j \in 1..(BatchHi(start) - BatchLo(start) + 1) |->
        << cache_data[tasks[BatchLo(start) + j - 1]],
           result[BatchLo(start) + j - 1] >>]

\* the entries of the results that are valid, in the results' order
ValidOf(res) ==
    LET kept == SelectSeq(res, LAMBDA x : x[2])
    IN  [j \in 1..Len(kept) |-> kept[j][1]]

CollectBatch ==
    /\ pc = "vc_gather"
    /\ GatherDone(i)
    /\ valid_entries' = valid_entries \o ValidOf(GatherResults(i))
    /\ pc' = "vc_sleep"
    /\ UNCHANGED << fixedVars, exc, diskVars, fileIdx, sessVars, cache_data,
                    taskVars, loopVars, otherVars >>

\* await asyncio.sleep(0.5), then the next round of the loop
Sleep ==
    /\ pc = "vc_sleep"
    /\ sleeps' = sleeps + 1
    /\ i' = i + batch_size
    /\ pc' = "vc_batch"
    /\ UNCHANGED << fixedVars, exc, diskVars, fileIdx, sessVars, cache_data,
                    taskVars, batches, valid_entries, otherVars >>

\* await self.session.close() and return valid_entries
CloseSession ==
    /\ pc = "vc_close"
    /\ session' = "closed"
    /\ pc' = "main_check"
    /\ UNCHANGED << fixedVars, exc, diskVars, fileIdx, acquired, cache_data,
                    taskVars, loopVars, valid_entries, otherVars >>

(***************************************************************************)
(* main, continued: backup and save                                        *)
(***************************************************************************)
\* if valid_entries: the original is renamed to its backup
MainBackup ==
    /\ pc = "main_check"
    /\ IF valid_entries # << >>
       THEN /\ fs' = Rename(fs, cache_file, ValidatorBackup(cache_file))
            /\ pc' = "main_save"
            /\ UNCHANGED fileIdx
       ELSE /\ pc' = "main_loop"
            /\ fileIdx' = fileIdx + 1
            /\ UNCHANGED fs
    /\ UNCHANGED << fixedVars, exc, written, sessVars, cache_data, taskVars,
                    loopVars, valid_entries, otherVars >>

\* validator.save_validated_cache(valid_entries, cache_file)
MainSave ==
    /\ pc = "main_save"
    /\ fs' = WriteJson(fs, cache_file, valid_entries)
    /\ written' = written \cup {cache_file}
    /\ fileIdx' = fileIdx + 1
    /\ pc' = "main_loop"
    /\ UNCHANGED << fixedVars, exc, sessVars, cache_data, taskVars, loopVars,
                    valid_entries, otherVars >>

ValidatorNext ==
    \/ MainNextFile
    \/ LoadCache
    \/ InitSession
    \/ CreateTasks
    \/ StartBatch
    \/ \E k \in 1..Len(tasks) : HeadComplete(k)
    \/ \E k \in 1..Len(tasks) : GetComplete(k)
    \/ CollectBatch
    \/ Sleep
    \/ CloseSession
    \/ MainBackup
    \/ MainSave

(***************************************************************************)
(* dev_tools.py: remove_duplicates(filepath)                               *)
(***************************************************************************)
\* the exists check, then the rename of the cache to its backup
RdBackup ==
    /\ pc = "rd_start"
    /\ IF ~Exists(fs, target)
       THEN pc' = "done" /\ UNCHANGED fs
       ELSE /\ fs' = Rename(fs, target, DedupBackup(target))
            /\ pc' = "rd_load"
    /\ UNCHANGED << fixedVars, exc, written, fileIdx, sessVars, cache_data,
                    taskVars, loopVars, valid_entries, otherVars >>

\* json.load of the backup and len(data)
RdLoad ==
    /\ pc = "rd_load"
    /\ LET c == fs[DedupBackup(target)] IN
         IF c.tag = "notjson"
         THEN Raise("JSONDecodeError") /\ UNCHANGED cache_data
         ELSE IF c.tag = "number"
         THEN Raise("TypeError") /\ UNCHANGED cache_data
         ELSE /\ cache_data' = c.items
              /\ pc' = "rd_dedupe"
              /\ UNCHANGED exc
    /\ UNCHANGED << fixedVars, diskVars, fileIdx, sessVars, taskVars,
                    loopVars, valid_entries, otherVars >>

\* the dedup loop without seen_urls.add(url)
RECURSIVE DedupeFromForgetful(_, _, _, _)
DedupeFromForgetful(data, j, seen_urls, out) ==
    IF j > Len(data) THEN out
    ELSE LET url == EntryUrl(data[j]) IN
         IF Truthy(url) /\ url \notin seen_urls
         THEN DedupeFromForgetful(data, j + 1, seen_urls, Append(out, data[j]))
         ELSE DedupeFromForgetful(data, j + 1, seen_urls, out)

\* the dedup loop from record j on: a record is kept when its URL is truthy
\* and was not seen before
RECURSIVE DedupeFrom(_, _, _, _)
DedupeFrom(data, j, seen_urls, out) ==
    IF j > Len(data) THEN out
    ELSE LET url == EntryUrl(data[j]) IN
         IF Truthy(url) /\ url \notin seen_urls
         THEN DedupeFrom(data, j + 1, seen_urls \cup {url}, Append(out, data[j]))
         ELSE DedupeFrom(data, j + 1, seen_urls, out)

Dedupe(data) == DedupeFrom(data, 1, {}, << >>)

\* the loop over data: item.get raises on a record that is no dict
RdDedupe ==
    /\ pc = "rd_dedupe"
    /\ IF \E j \in 1..Len(cache_data) : ~cache_data[j].dict
       THEN Raise("AttributeError") /\ UNCHANGED unique_data
       ELSE /\ unique_data' = Dedupe(cache_data)
            /\ pc' = "rd_save"
            /\ UNCHANGED exc
    /\ UNCHANGED << fixedVars, diskVars, fileIdx, sessVars, cache_data,
                    taskVars, loopVars, valid_entries, results, kw >>

\* open(cache_path, 'w') and json.dump(unique_data, ...)
RdSave ==
    /\ pc = "rd_save"
    /\ fs' = WriteJson(fs, target, unique_data)
    /\ written' = written \cup {target}
    /\ pc' = "done"
    /\ UNCHANGED << fixedVars, exc, fileIdx, sessVars, cache_data, taskVars,
                    loopVars, valid_entries, otherVars >>

DedupNext ==
    \/ RdBackup
    \/ RdLoad
    \/ RdDedupe
    \/ RdSave

(***************************************************************************)
(* pinterest_scraper.py: scrape_search, save_results and main              *)
(***************************************************************************)
NumKeywords == 5
PINS_PER_KEYWORD == 30

\* extract_pins_from_page from img element j on: an element without a src
\* is skipped; the src is converted, and the pin is kept when its converted
\* URL is valid (a pin is an entry in the legacy shape)
RECURSIVE ExtractFrom(_, _, _)
ExtractFrom(srcs, j, pins) ==
    IF j > Len(srcs) THEN pins
    ELSE LET img_src == srcs[j]
             original_url == convert_to_original_url(img_src)
         IN  IF ~Truthy(img_src) \/ ~is_valid_image_url(original_url)
             THEN ExtractFrom(srcs, j + 1, pins)
             ELSE ExtractFrom(srcs, j + 1, Append(pins, Legacy(original_url)))

extract_pins_from_page(srcs) == ExtractFrom(srcs, 1, << >>)

\* what extract_pins_from_page returns on the pages scraper main may open
Pages == {extract_pins_from_page(srcs) : srcs \in SeqsUpTo(ImgSrcs, MaxPins)}

\* the dedup loop of scrape_search from pin j on, with its break at max_pins
RECURSIVE UniqueFrom(_, _, _, _, _)
UniqueFrom(pins, j, seen_urls, unique_pins, max_pins) ==
    IF j > Len(pins) THEN unique_pins
    ELSE IF pins[j].media \notin seen_urls
    THEN LET u == Append(unique_pins, pins[j]) IN
         IF Len(u) >= max_pins THEN u
         ELSE UniqueFrom(pins, j + 1, seen_urls \cup {pins[j].media}, u, max_pins)
    ELSE UniqueFrom(pins, j + 1, seen_urls, unique_pins, max_pins)

UniquePins(pins, max_pins) == UniqueFrom(pins, 1, {}, << >>, max_pins)

\* scrape_search(keyword, max_pins) on a page that yields pins; when the
\* navigation raises (failed), the except branch leaves results alone
ScrapeSearch(pins, max_pins, failed) ==
    /\ pc = "sc_scrape"
    /\ kw <= NumKeywords
    /\ results' = (IF failed THEN results
                   ELSE results \o UniquePins(pins, max_pins))
    /\ kw' = kw + 1
    /\ UNCHANGED << fixedVars, pc, exc, diskVars, fileIdx, sessVars,
                    cache_data, taskVars, loopVars, valid_entries, unique_data >>

\* save_results(filepath): open(output_path, 'w') and json.dump(self.results)
SaveResults(filepath) ==
    /\ fs' = WriteJson(fs, filepath, results)
    /\ written' = written \cup {filepath}

\* scraper.save_results(OUTPUT_FILE), once every keyword is scraped
ScraperSaveOutput ==
    /\ pc = "sc_scrape"
    /\ kw > NumKeywords
    /\ SaveResults(OUTPUT_FILE)
    /\ pc' = "sc_save_ext"
    /\ UNCHANGED << fixedVars, exc, fileIdx, sessVars, cache_data, taskVars,
                    loopVars, valid_entries, otherVars >>

\* scraper.save_results(EXTENSION_OUTPUT)
ScraperSaveExtension ==
    /\ pc = "sc_save_ext"
    /\ SaveResults(EXTENSION_OUTPUT)
    /\ pc' = "done"
    /\ UNCHANGED << fixedVars, exc, fileIdx, sessVars, cache_data, taskVars,
                    loopVars, valid_entries, otherVars >>

ScraperNext ==
    \/ \E pins \in Pages, failed \in BOOLEAN :
          ScrapeSearch(pins, PINS_PER_KEYWORD, failed)
    \/ ScraperSaveOutput
    \/ ScraperSaveExtension

(***************************************************************************)
(* The specification.                                                      *)
(***************************************************************************)
Next == ValidatorNext \/ DedupNext \/ ScraperNext

Spec == Init /\ [][Next]_vars

(***************************************************************************)
(* The URL functions on their own: one behaviour gives one value to        *)
(* convert_to_original_url (whose result is converted once more, or        *)
(* classified by analyze_cache) or to is_valid_image_url.                  *)
(***************************************************************************)
runVars ==
    << cmd, target, pc, exc, fs, fs0, written, fileIdx, session, acquired,
       tasks, i, phase, result, reqs, valid_entries, batches, sleeps,
       results, kw >>

\* none of the three programs runs
NoProgram ==
    /\ cmd = "none"
    /\ target = OUTPUT_FILE
    /\ fs = Disk(Absent, Absent, FALSE)
    /\ fs0 = fs
    /\ pc = "none"
    /\ Fresh

UrlInit ==
    /\ NoProgram
    /\ cache_data = << >>
    /\ NoPinsGiven
    /\ step = "url"
    /\ given_url \in TestUrls
    /\ converted = ""
    /\ renormalized = ""
    /\ verdict = FALSE
    /\ tier = "none"

\* original_url = self.convert_to_original_url(img_src)
Convert ==
    /\ step = "url"
    /\ IsStr(given_url)
    /\ converted' = convert_to_original_url(given_url)
    /\ step' = "converted"
    /\ UNCHANGED << runVars, cache_data, unique_data, pinVars, given_url,
                    renormalized, verdict, tier >>

\* the converted URL is converted again
ConvertAgain ==
    /\ step = "converted"
    /\ renormalized' = convert_to_original_url(converted)
    /\ step' = "renormalized"
    /\ UNCHANGED << runVars, cache_data, unique_data, pinVars, given_url,
                    converted, verdict, tier >>

\* analyze_cache's type analysis of the converted URL
Classify ==
    /\ step = "converted"
    /\ tier' = url_type(converted)
    /\ step' = "classified"
    /\ UNCHANGED << runVars, cache_data, unique_data, pinVars, given_url,
                    converted, renormalized, verdict >>

\* self.is_valid_image_url(url)
Validate ==
    /\ step = "url"
    /\ verdict' = is_valid_image_url(given_url)
    /\ step' = "validated"
    /\ UNCHANGED << runVars, cache_data, unique_data, pinVars, given_url,
                    converted, renormalized, tier >>

UrlNext == Convert \/ ConvertAgain \/ Classify \/ Validate

UrlSpec == UrlInit /\ [][UrlNext]_vars

(***************************************************************************)
(* The dedup loops on their own: one behaviour runs the loop of            *)
(* scrape_search on the pins of one page, with one max_pins, or the loop   *)
(* of remove_duplicates on one loaded cache.                               *)
(***************************************************************************)
DedupeInit ==
    /\ NoProgram
    /\ NoUrlGiven
    /\ step \in {"page", "rd_loop"}
    /\ given_srcs \in (IF step = "page" THEN SeqsUpTo(ImgSrcs, MaxDedupe)
                       ELSE {<< >>})
    /\ given_cap \in (IF step = "page" THEN 0..MaxCap ELSE {0})
    /\ given_pins = << >>
    /\ returned_pins = << >>
    /\ cache_data \in (IF step = "rd_loop" THEN SeqsUpTo(DedupeItems, MaxDedupe)
                       ELSE {<< >>})

\* pins = await self.extract_pins_from_page(page)
ExtractPins ==
    /\ step = "page"
    /\ given_pins' = extract_pins_from_page(given_srcs)
    /\ step' = "sl_loop"
    /\ UNCHANGED << runVars, cache_data, unique_data, urlVars, given_srcs,
                    given_cap, returned_pins >>

\* the dedup loop of scrape_search (and of scrape_board)
ScrapeLoop ==
    /\ step = "sl_loop"
    /\ returned_pins' = UniquePins(given_pins, given_cap)
    /\ step' = "sl_returned"
    /\ UNCHANGED << runVars, cache_data, unique_data, urlVars, given_srcs,
                    given_pins, given_cap >>

\* the dedup loop of remove_duplicates
RemoveLoop ==
    /\ step = "rd_loop"
    /\ unique_data' = Dedupe(cache_data)
    /\ step' = "rd_returned"
    /\ UNCHANGED << runVars, cache_data, urlVars, pinVars >>

DedupeNext == ExtractPins \/ ScrapeLoop \/ RemoveLoop

DedupeSpec == DedupeInit /\ [][DedupeNext]_vars

(***************************************************************************)
(* The validator under fair scheduling: the event loop runs a coroutine    *)
(* that can go on, and a request in flight completes (with a response, a   *)
(* transport failure or the session's total timeout).                      *)
(***************************************************************************)
\* the disks of the fair runs: short caches, caches of one, two and three
\* batches, and two cache files
FairDisks ==
    {Disk(c, Absent, FALSE) :
        c \in SmallContents(MaxSmall - 1, MaxMixed - 1)
                \cup {JArray(LongCache(n)) :
                        n \in {batch_size, batch_size + 1, MaxEntries - 4}}}
        \cup {Disk(c1, c2, FALSE) :
                c1 \in {Absent, JArray(<< Legacy("ok.jpg") >>)},
                c2 \in SmallContents(MaxSmall - 2, MaxMixed - 1)}

ValidateInit ==
    /\ cmd = "validate"
    /\ target = OUTPUT_FILE
    /\ fs \in FairDisks
    /\ fs0 = fs
    /\ pc = "main_loop"
    /\ cache_data = << >>
    /\ Fresh
    /\ step = "none"
    /\ NoUrlGiven
    /\ NoPinsGiven

\* a step of main or of validate_cache itself
ProgramStep ==
    \/ MainNextFile
    \/ LoadCache
    \/ InitSession
    \/ CreateTasks
    \/ StartBatch
    \/ CollectBatch
    \/ Sleep
    \/ CloseSession
    \/ MainBackup
    \/ MainSave

\* a request in flight ends
RequestCompletes ==
    \E k \in 1..Len(tasks) : HeadComplete(k) \/ GetComplete(k)

FairSpec ==
    /\ ValidateInit
    /\ [][ValidatorNext]_vars
    /\ WF_vars(ProgramStep)
    /\ WF_vars(RequestCompletes)

(***************************************************************************)
(* What the properties below speak about.                                  *)
(***************************************************************************)
\* positions of a call of validate_cache on a loaded cache
InRun == pc \in {"vc_batch", "vc_gather", "vc_sleep", "vc_close", "main_check", "main_save"}

\* validate_cache has returned its valid_entries
Returned == pc \in {"main_check", "main_save"}

Ended == pc \in {"done", "crashed"}

TaskIds == 1..Len(tasks)

InFlight(k) == phase[k] \in {"head", "get"}

\* the tasks whose results validate_cache has gone through
Collected ==
    {k \in TaskIds :
        IF pc \in {"vc_batch", "vc_gather"} THEN k <= i
        ELSE IF pc = "vc_sleep" THEN k <= i + 10
        ELSE TRUE}

\* the records of data at the positions in S, in the order of data
RecordsAt(data, S) ==
    LET idx == SelectSeq([j \in 1..Len(data) |-> j], LAMBDA j : j \in S)
    IN  [n \in 1..Len(idx) |-> data[idx[n]]]

\* the number of records of the loaded cache that carry a URL
WithUrl == Cardinality({j \in 1..Len(cache_data) : Truthy(EntryUrl(cache_data[j]))})

\* the batch a task belongs to, counting the tasks in tens
BatchNo(k) == ((k - 1) \div 10) + 1

\* a Content-Type that contains "image" in any mix of cases
IMAGE_UPPER == << "I", "M", "A", "G", "E" >>
SaysImage(ct) ==
    \E s \in 0..(Len(ct) - 5) :
        \A j \in 1..5 : ct[s + j] \in {IMAGE[j], IMAGE_UPPER[j]}

Live(r) == ~r.err /\ r.status < 400 /\ SaysImage(r.ctype)

\* the URL is a live image: by its header-only response or else its full fetch
LiveImage(u) ==
    /\ IsStr(u) /\ u # ""
    /\ ~Server(u).head.err
    /\ \/ Live(Server(u).head)
       \/ ~Server(u).get.err /\ Live(Server(u).get)

HeadIssued(k) == Len(reqs[k]) >= 1 /\ reqs[k][1] = "HEAD"
GetIssued(k) == \E n \in 1..Len(reqs[k]) : reqs[k][n] = "GET"
HeadCompleted(k) ==
    HeadIssued(k) /\ phase[k] \in {"get", "done"} /\ ~Server(TaskUrl(k)).head.err

\* a transport failure met task k
TransportFailed(k) ==
    /\ HeadIssued(k)
    /\ \/ phase[k] = "done" /\ Server(TaskUrl(k)).head.err
       \/ phase[k] = "done" /\ GetIssued(k) /\ Server(TaskUrl(k)).get.err

WellFormed(c) == c.tag = "array" /\ \A j \in 1..Len(c.items) : c.items[j].dict
Malformed(c) == c.tag # "absent" /\ ~WellFormed(c)

(***************************************************************************)
(* C1: validate_cache's output is, whatever the order in which the probes  *)
(* complete, the input records whose probe succeeded, each once, in input  *)
(* order; of [A, B, C] with only B failing it is [A, C].                   *)
(***************************************************************************)
OutputInInputOrder ==
    InRun =>
      /\ valid_entries =
            RecordsAt(cache_data,
                      {tasks[k] : k \in {c \in Collected : result[c]}})
      /\ (Returned /\ cache_data = << Legacy("ok.jpg"), Legacy("gone.jpg"),
                                      Current("nohead.png") >>)
            => valid_entries = << Legacy("ok.jpg"), Current("nohead.png") >>

OutputSkipsFailedMiddle ==
    /\ Returned
    /\ cache_data = << Legacy("ok.jpg"), Legacy("gone.jpg"), Current("nohead.png") >>
    /\ valid_entries = << Legacy("ok.jpg"), Current("nohead.png") >>

(***************************************************************************)
(* C2: n records with a URL are probed in ceil(n/10) batches, each of 10   *)
(* probes but the last, which holds the rest (25 give 10, 10, 5); never    *)
(* are more than 10 probes in flight.                                      *)
(***************************************************************************)
BatchesOfTen ==
    InRun =>
      /\ Cardinality({k \in TaskIds : InFlight(k)}) <= 10
      /\ \A b \in 1..Len(batches) :
            batches[b] = (IF 10 * b <= WithUrl THEN 10 ELSE WithUrl - 10 * (b - 1))
      /\ Len(batches) <= (WithUrl + 9) \div 10
      /\ pc \in {"vc_close", "main_check", "main_save"}
            => Len(batches) = (WithUrl + 9) \div 10
      /\ (pc = "vc_close" /\ WithUrl = 25) => batches = << 10, 10, 5 >>

ThreeBatchesIssued ==
    /\ pc = "vc_close"
    /\ Len(cache_data) = 25
    /\ batches = << 10, 10, 5 >>

(***************************************************************************)
(* C3: probes of two batches are never in flight together: a probe of a    *)
(* batch starts only once every probe of the batches before it is done and *)
(* the pause after each of them has been slept.                            *)
(***************************************************************************)
BatchBarrier ==
    InRun =>
      /\ Cardinality({BatchNo(k) : k \in {t \in TaskIds : InFlight(t)}}) <= 1
      /\ \A b \in {BatchNo(k) : k \in {t \in TaskIds : phase[t] # "new"}} :
            /\ \A k0 \in TaskIds : BatchNo(k0) < b => phase[k0] = "done"
            /\ sleeps >= b - 1

SecondBatchInFlight ==
    /\ pc = "vc_gather"
    /\ sleeps = 1
    /\ \E k \in TaskIds : BatchNo(k) = 2 /\ InFlight(k)
    /\ \E k \in TaskIds : BatchNo(k) = 2 /\ phase[k] = "done"

(***************************************************************************)
(* C4: a transport failure of the header-only request or of the full fetch *)
(* makes that one probe invalid and goes no further: no exception ends the *)
(* program once probes have started, every task of every batch gets done,  *)
(* and validate_cache returns, also when all probes of a batch fail.       *)
(***************************************************************************)
TransportFailureStaysLocal ==
    /\ \A k \in TaskIds : TransportFailed(k) => ~result[k]
    /\ (cmd = "validate" /\ exc # "none") => \A k \in TaskIds : phase[k] = "new"
    /\ (InRun /\ pc \in {"vc_close", "main_check", "main_save"})
          => /\ \A k \in TaskIds : phase[k] = "done"
             /\ Len(batches) = (Len(tasks) + 9) \div 10
    /\ (InRun /\ pc = "vc_gather" /\ ~GatherDone(i))
          => \E k \in Batch(i) : ENABLED HeadComplete(k) \/ ENABLED GetComplete(k)

WholeBatchFailedAndReturned ==
    /\ Returned
    /\ Len(tasks) >= 2
    /\ \A k \in TaskIds : TransportFailed(k)
    /\ valid_entries = << >>
    /\ exc = "none"

(***************************************************************************)
(* C5: no run of the validator ends with its HTTP session still open,      *)
(* whether validate_cache returned or an exception left it.                *)
(***************************************************************************)
SessionClosedOnEveryExit ==
    (cmd = "validate" /\ (Ended \/ Returned)) => session # "open"

(***************************************************************************)
(* C6: a probe is valid exactly when no transport failure occurred and the *)
(* header-only response, or else the full fetch, has a status below 400    *)
(* and a Content-Type containing "image" in any case; a URL that is no     *)
(* string is invalid without a request.                                    *)
(***************************************************************************)
CheckUrlDecides ==
    /\ \A k \in TaskIds :
          phase[k] = "done" =>
            /\ result[k] = LiveImage(TaskUrl(k))
            /\ TaskUrl(k) = "ok.jpg" => result[k]
            /\ TaskUrl(k) = PageUrl => ~result[k]
            /\ ~IsStr(TaskUrl(k)) => ~result[k] /\ reqs[k] = << >>
    \* a record whose URL is empty or missing gets no task, hence no request
    /\ InRun =>
          \A j \in 1..Len(cache_data) :
              EntryUrl(cache_data[j]) \in {"", NoneV} =>
                  \A k \in TaskIds : tasks[k] # j

MixedCaseImageByFullFetch ==
    \E k \in TaskIds :
        /\ phase[k] = "done"
        /\ TaskUrl(k) = "nohead.png"
        /\ result[k]
        /\ \E k2 \in TaskIds : phase[k2] = "done" /\ ~IsStr(TaskUrl(k2))

(***************************************************************************)
(* C7: per URL the header-only request comes first; the full fetch is      *)
(* issued exactly when the header-only request completed with an error     *)
(* status or without an image Content-Type; and a URL whose header-only    *)
(* request completed is not reported dead before the full fetch was tried. *)
(***************************************************************************)
HeadThenFetch ==
    \A k \in TaskIds :
        LET h == Server(TaskUrl(k)).head IN
        /\ reqs[k] \in {<< >>, << "HEAD" >>, << "HEAD", "GET" >>}
        /\ GetIssued(k) <=>
              (HeadCompleted(k) /\ (h.status >= 400 \/ ~SaysImage(h.ctype)))
        /\ (phase[k] = "done" /\ ~result[k] /\ HeadCompleted(k)) => GetIssued(k)

DeadAfterFullFetch ==
    \E k \in TaskIds :
        /\ phase[k] = "done"
        /\ ~result[k]
        /\ reqs[k] = << "HEAD", "GET" >>
        /\ Server(TaskUrl(k)).head.status < 400

(***************************************************************************)
(* C8: after the validator's main has run on an existing, well-formed      *)
(* cache file whose records all carry a URL, the file holds exactly the    *)
(* entries whose probe succeeded, also when every entry is dead.           *)
(***************************************************************************)
NoDeadEntryRemains ==
    (cmd = "validate" /\ pc = "done") =>
        \A f \in CacheFiles :
            (WellFormed(fs0[f]) /\ \A j \in 1..Len(fs0[f].items) :
                                       Checkable(EntryUrl(fs0[f].items[j]))) =>
                fs[f] = JArray(RecordsAt(fs0[f].items,
                                 {j \in 1..Len(fs0[f].items) :
                                     LiveImage(EntryUrl(fs0[f].items[j]))}))

(***************************************************************************)
(* C9: whenever an operation writes new content over an existing cache     *)
(* file, a sibling backup holds the contents the file had before.          *)
(***************************************************************************)
BackupBeforeOverwrite ==
    \A p \in written :
        Exists(fs0, p) =>
            \E b \in {ValidatorBackup(p), DedupBackup(p)} : fs[b] = fs0[p]

(***************************************************************************)
(* C10: on a malformed cache file the validation run and the dedup command *)
(* end with an error and leave the file where it was, with the contents it *)
(* had, and write nothing to it.                                           *)
(***************************************************************************)
MalformedCacheUntouched ==
    /\ (cmd = "dedup" /\ Ended /\ Malformed(fs0[target]))
          => /\ exc # "none"
             /\ fs[target] = fs0[target]
             /\ target \notin written
    /\ (cmd = "validate" /\ Ended)
          => \A n \in 1..Len(FILES_TO_VALIDATE) :
                (n <= fileIdx /\ Malformed(fs0[FILES_TO_VALIDATE[n]]))
                   => /\ exc # "none"
                      /\ fs[FILES_TO_VALIDATE[n]] = fs0[FILES_TO_VALIDATE[n]]
                      /\ FILES_TO_VALIDATE[n] \notin written

(***************************************************************************)
(* What the properties of the dedup loops and of the URL functions speak   *)
(* about.                                                                  *)
(***************************************************************************)
\* the media URL of an entry: the media field of the legacy shape, the url
\* field of the current shape
MediaUrl(e) == IF e.media # NoneV THEN e.media ELSE e.url

HasMedia(e) == Truthy(MediaUrl(e))

\* the positions of data where a media URL occurs for the first time
FirstSeen(data) ==
    {j \in 1..Len(data) :
        /\ HasMedia(data[j])
        /\ \A k \in 1..(j - 1) : MediaUrl(data[k]) # MediaUrl(data[j])}

FirstOccurrences(data) == RecordsAt(data, FirstSeen(data))

WithMedia(data) == SelectSeq(data, HasMedia)

IsSubsequence(out, data) ==
    \E S \in SUBSET (1..Len(data)) : RecordsAt(data, S) = out

NoSharedMedia(out) ==
    \A j, k \in 1..Len(out) :
        (j < k /\ HasMedia(out[j])) => MediaUrl(out[j]) # MediaUrl(out[k])

Least(a, b) == IF a <= b THEN a ELSE b

\* the host of a URL is the CDN domain or one of its subdomains
HostIsCdn(u) ==
    LET host == LowerStr(urlparse(u).netloc)
    IN  host = "pinimg.com" \/ EndsWith(host, ".pinimg.com")

(***************************************************************************)
(* C11: the dedup loop of remove_duplicates, and the dedup loop of         *)
(* scrape_search when max_pins is not below the number of distinct media   *)
(* URLs, return a subsequence of their input in which no two entries share *)
(* a media URL and which holds, in input order, the first occurrence of    *)
(* every media URL of the input: [A, B, A] gives [A, B].                   *)
(***************************************************************************)
DedupeKeepsFirstOccurrences ==
    /\ step = "rd_returned" =>
          /\ IsSubsequence(unique_data, cache_data)
          /\ NoSharedMedia(unique_data)
          /\ WithMedia(unique_data) = FirstOccurrences(cache_data)
    /\ (step = "sl_returned" /\ Cardinality(FirstSeen(given_pins)) <= given_cap) =>
          /\ IsSubsequence(returned_pins, given_pins)
          /\ NoSharedMedia(returned_pins)
          /\ returned_pins = FirstOccurrences(given_pins)

FirstOfRepeatedKept ==
    /\ step = "rd_returned"
    /\ Len(cache_data) = 3
    /\ HasMedia(cache_data[1])
    /\ HasMedia(cache_data[2])
    /\ MediaUrl(cache_data[2]) # MediaUrl(cache_data[1])
    /\ cache_data[3] = cache_data[1]
    /\ unique_data = SubSeq(cache_data, 1, 2)

(***************************************************************************)
(* C12: no two entries a dedup loop returns have media URLs that           *)
(* convert_to_original_url takes to the same URL.                          *)
(***************************************************************************)
NormalizedKeysDiffer(out) ==
    \A j, k \in 1..Len(out) :
        (j < k /\ HasMedia(out[j]) /\ HasMedia(out[k])) =>
            convert_to_original_url(MediaUrl(out[j]))
                # convert_to_original_url(MediaUrl(out[k]))

DedupeKeyIsNormalized ==
    /\ step = "rd_returned" => NormalizedKeysDiffer(unique_data)
    /\ step = "sl_returned" => NormalizedKeysDiffer(returned_pins)

(***************************************************************************)
(* C13: with every max_pins, the dedup loop of scrape_search returns the   *)
(* first max_pins entries of what it returns without a cap (all of them    *)
(* when there are fewer), never more than max_pins entries.                *)
(***************************************************************************)
DedupeCapTruncates ==
    step = "sl_returned" =>
        LET uncapped == FirstOccurrences(given_pins) IN
        /\ Len(returned_pins) <= given_cap
        /\ returned_pins = SubSeq(uncapped, 1, Least(given_cap, Len(uncapped)))

(***************************************************************************)
(* C14: a dedup loop never returns an entry whose media URL is empty or    *)
(* missing, whichever of the two shapes the entry has.                     *)
(***************************************************************************)
NoEntryWithoutMediaEmitted ==
    /\ step = "rd_returned" =>
          \A j \in 1..Len(unique_data) : HasMedia(unique_data[j])
    /\ step = "sl_returned" =>
          \A j \in 1..Len(returned_pins) : HasMedia(returned_pins[j])

(***************************************************************************)
(* C15: after any sequence of scrape_search calls, the scraper's results,  *)
(* which save_results writes, hold no two entries with the same media URL. *)
(***************************************************************************)
ResultsHoldNoDuplicate ==
    \A j, k \in 1..Len(results) :
        j < k => MediaUrl(results[j]) # MediaUrl(results[k])

(***************************************************************************)
(* C16: every record a program has written to a cache file is an entry     *)
(* with a non-empty media URL that is_valid_image_url accepts.             *)
(***************************************************************************)
WrittenEntriesValid ==
    \A p \in written :
        \A j \in 1..Len(fs[p].items) :
            /\ fs[p].items[j].dict
            /\ is_valid_image_url(MediaUrl(fs[p].items[j]))

(***************************************************************************)
(* C17: converting a converted URL again changes nothing.                  *)
(***************************************************************************)
ConvertIdempotent ==
    step = "renormalized" => renormalized = converted

(***************************************************************************)
(* C18: a URL that analyze_cache types as a thumbnail and that contains    *)
(* 'pinimg.com' is converted to a URL that analyze_cache types as an       *)
(* original.                                                               *)
(***************************************************************************)
CdnThumbnailBecomesOriginal ==
    (/\ step = "classified"
     /\ url_type(given_url) = "thumbnail"
     /\ Contains(given_url, "pinimg.com")) => tier = "original"

CdnThumbnailConverted ==
    /\ step = "classified"
    /\ given_url = "https://i.pinimg.com/736x/ab/photo.jpg"
    /\ converted = "https://i.pinimg.com/originals/ab/photo.jpg"
    /\ tier = "original"

\* C18 as stated: every URL typed as a thumbnail, whatever its host
ThumbnailBecomesOriginal ==
    (step = "classified" /\ url_type(given_url) = "thumbnail")
        => tier = "original"

(***************************************************************************)
(* C19: is_valid_image_url rejects every URL that contains 'blob:' or      *)
(* 'data:' or ends in '.gif', whatever its domain; it accepts              *)
(* https://i.pinimg.com/originals/ab/cd/photo.jpg and rejects the same URL *)
(* ending in photo.gif.                                                    *)
(***************************************************************************)
IsValidFailsClosed ==
    step = "validated" =>
        /\ (\/ Contains(given_url, "blob:")
            \/ Contains(given_url, "data:")
            \/ EndsWith(given_url, ".gif")) => ~verdict
        /\ given_url = "https://i.pinimg.com/originals/ab/cd/photo.jpg" => verdict
        /\ given_url = "https://i.pinimg.com/originals/ab/cd/photo.gif" => ~verdict

BlobOnCdnRejected ==
    /\ step = "validated"
    /\ given_url = "blob:https://i.pinimg.com/originals/photo.jpg"
    /\ ~verdict

(***************************************************************************)
(* C20: a URL that is_valid_image_url accepts has the CDN domain, or a     *)
(* subdomain of it, as its host.                                           *)
(***************************************************************************)
ValidImpliesCdnHost ==
    (step = "validated" /\ verdict) => HostIsCdn(given_url)

(***************************************************************************)
(* C21: when every request in flight completes, a call of validate_cache   *)
(* on a loaded cache of entries gathers every batch, closes the session    *)
(* and returns; and while it runs it waits for nothing but probes of the   *)
(* current batch that are in flight (the pause between batches ends by     *)
(* itself).                                                                *)
(***************************************************************************)
LoadedEntries ==
    /\ pc = "vc_session"
    /\ \A j \in 1..Len(cache_data) : cache_data[j].dict

ReturnedClosed ==
    /\ pc = "main_check"
    /\ session = "closed"
    /\ \A k \in TaskIds : phase[k] = "done"
    /\ Len(batches) = (Len(tasks) + batch_size - 1) \div batch_size

WaitsOnlyOnCurrentBatch ==
    (/\ pc \in {"vc_session", "vc_tasks", "vc_batch", "vc_gather", "vc_sleep",
                "vc_close"}
     /\ ~ENABLED ProgramStep)
        => /\ pc = "vc_gather"
           /\ \E k \in Batch(i) : InFlight(k)

ValidationRunFinishes ==
    /\ LoadedEntries ~> ReturnedClosed
    /\ []WaitsOnlyOnCurrentBatch

ReturnedAfterThirdBatchTimedOut ==
    /\ ReturnedClosed
    /\ Len(batches) = 3
    /\ \E k \in TaskIds : BatchNo(k) = 3 /\ TransportFailed(k)

============================================================================
